---- MODULE Spec2Model ----
(***************************************************************************)
(* Model of the PGA amplitude processor template                           *)
(* (src/amplitude-pga/plugin.cpp): PGAProcessor::setup, PGAProcessor::feed *)
(* and PGAProcessor::computeAmplitude.                                     *)
(*                                                                         *)
(* Object identity is modelled by a generation number: an operator or      *)
(* filter constructed during the n-th call of setup carries gen = n, and   *)
(* gen = 0 is the null pointer.  Real numbers are modelled by integers and *)
(* quotients by pairs <<numerator, denominator>> with denominator > 0.     *)
(***************************************************************************)
EXTENDS Integers, Sequences, FiniteSets, TLC

VARIABLES
    op,             \* WaveformProcessor operator (getOperator()), gen 0 = null
    filt,           \* post filter set by setFilter(), gen 0 = null
    status,         \* processor status
    statusValue,    \* value passed along with the status, as a quotient
    streamConfig,   \* _streamConfig[FirstHorizontal..SecondHorizontal]
    settings,       \* settings argument of the call, when the last call is setup
    baseOk,         \* AmplitudeProcessor::setup succeeded, when the last call is setup
    setupOk,        \* return value of the most recent setup
    ret,            \* return value of the most recent call
    lastCall,       \* "none", "configure", "setup", "feed" or "computeAmplitude"
    nSetup,         \* number of setup calls so far
    forwarded,      \* number of records handed to AmplitudeProcessor::feed
    logged,         \* SEISCOMP_ERROR message emitted by the most recent call
    data,           \* computeAmplitude: samples, indexed from 0
    si1, si2,       \* computeAmplitude: signal window [si1, si2)
    offset,         \* computeAmplitude: offset
    noiseAmplitude, \* *_noiseAmplitude
    snrMin,         \* _config.snrMin
    dtIndex,        \* dt->index
    amplitude,      \* amplitude->value
    period,         \* *period
    snr,            \* *snr, as a quotient
    combIn,         \* combiner: the two input traces, as integers
    combN,          \* combiner: n, the number of samples to process
    combData,       \* combiner: data[0] and data[1]
    combCall,       \* combiner: "none", "operator" or "publish"
    pubArg,         \* combiner: argument c of the last publish(c)
    pubRet,         \* combiner: result of the last publish(c)
    appConfig,      \* IDCInfra: the application's configuration
    ttModel,        \* IDCInfra::_model
    ttTable,        \* IDCInfra::_table: "&IDCDefault" or a key of _tables
    ttTables,       \* IDCInfra::_tables
    ttInitialized,  \* IDCInfra::_tablesInitialized
    ttCall,         \* IDCInfra: "none", "setModel" or "compute"
    ttArg,          \* IDCInfra: model name given to the last setModel
    ttRet,          \* IDCInfra: result of the last setModel
    ttDist,         \* IDCInfra: distance of the last compute, in 0.1 degree
    ttCelerity,     \* IDCInfra: celerity used by the last compute, in m/s
    ttResult        \* IDCInfra: travel time returned by the last compute

vars == <<op, filt, status, statusValue, streamConfig, settings, baseOk,
          setupOk, ret, lastCall, nSetup, forwarded, logged,
          data, si1, si2, offset, noiseAmplitude, snrMin,
          dtIndex, amplitude, period, snr,
          combIn, combN, combData, combCall, pubArg, pubRet,
          appConfig, ttModel, ttTable, ttTables, ttInitialized,
          ttCall, ttArg, ttRet, ttDist, ttCelerity, ttResult>>

procVars == <<op, filt, streamConfig, settings, baseOk, setupOk,
              nSetup, forwarded, logged>>
ampVars  == <<data, si1, si2, offset, noiseAmplitude, snrMin,
              dtIndex, amplitude, period, snr>>
combVars == <<combIn, combN, combData, combCall, pubArg, pubRet>>
ttVars == <<appConfig, ttModel, ttTable, ttTables, ttInitialized,
            ttCall, ttArg, ttRet, ttDist, ttCelerity, ttResult>>

----------------------------------------------------------------------------
(* Bounds *)

MaxSetups == 2
MaxFeeds == 1
DataLen == 3
MaxSample == 1
MaxOffset == 1
MaxNoise == 2
MaxSnrMin == 1
CombLen == 2
MaxComp == 1
MaxDist == 3
MaxTableLen == 2

----------------------------------------------------------------------------
(* Program constants *)

AMPLITUDE_TYPE == "template_pga"
FirstHorizontal == 1
SecondHorizontal == 2

PreFilterKey == "amplitudes.template_pga.preFilter"
PostFilterKey == "amplitudes.template_pga.filter"

----------------------------------------------------------------------------
(* Values *)

NoFilter == [gen |-> 0, spec |-> ""]
NoOperator == [gen |-> 0, pre |-> NoFilter]
NoLog == [fmt |-> "", args |-> <<>>]

Codes == {"", "HHN"}
GainUnits == {"", "M/S**2"}
Gains == {0, 1}
StreamConfigs == [code : Codes, gain : Gains, gainUnit : GainUnits]
DefaultStream == [code |-> "", gain |-> 0, gainUnit |-> ""]

\* Filter specification strings tried as settings values; the filter
\* registry constructs the ones of ValidSpecs and rejects the others.
FilterSpecs == {"", "BW(3,1,10)", "BW(3,"}
ValidSpecs == {"BW(3,1,10)"}

SettingsSet ==
    UNION { [K -> FilterSpecs] : K \in SUBSET {PreFilterKey, PostFilterKey} }

----------------------------------------------------------------------------
(* Collaborators outside the plugin *)

\* settings.getString(key) throws when the key is absent; setup catches
\* the exception and keeps the default-constructed (empty) string.
GetStringOrKey(s, key) == IF key \in DOMAIN s THEN s[key] ELSE key
GetStringOrEmpty(s, key) == IF key \in DOMAIN s THEN s[key] ELSE ""

\* Filter::Create(spec, &error)
RegistryError(spec) == "invalid filter definition"

FilterCreate(spec, gen) ==
    IF spec \in ValidSpecs
    THEN [filter |-> [gen |-> gen, spec |-> spec], error |-> ""]
    ELSE [filter |-> NoFilter, error |-> RegistryError(spec)]

\* Outcomes of AmplitudeProcessor::setup, which is outside the plugin:
\* success or failure.  The plugin itself touches no status on failure.
BaseOutcomes(st) ==
    {[ok |-> TRUE, status |-> st], [ok |-> FALSE, status |-> st]}

----------------------------------------------------------------------------
(* PGAProcessor::setup *)

ResetOperatorKeep(o) == o
ResetOperator(o) == NoOperator

ResetFilterKeep(f) == f
ResetFilter(f) == NoFilter

CodeEmptyNever(sc) == FALSE
CodeEmpty(sc) == sc.code = ""

GainMissingNever(sc) == FALSE
GainMissing(sc) == sc.gain = 0

UnitsDifferNever(cfg) == FALSE
UnitsDiffer(cfg) ==
    cfg[FirstHorizontal].gainUnit # cfg[SecondHorizontal].gainUnit

\* for ( int i = FirstHorizontal; i <= SecondHorizontal; ++i ): the first
\* component with an empty code or a zero gain decides the status.
RECURSIVE CheckStreams(_, _)
CheckStreams(cfg, i) ==
    IF i > SecondHorizontal
    THEN [ok |-> TRUE, status |-> "", value |-> 0,
          log |-> NoLog]
    ELSE IF CodeEmpty(cfg[i])
    THEN [ok |-> FALSE, status |-> "Error", value |-> i,
          log |-> [fmt |-> "Component[%d] code is empty", args |-> <<i>>]]
    ELSE IF GainMissing(cfg[i])
    THEN [ok |-> FALSE, status |-> "MissingGain", value |-> i,
          log |-> [fmt |-> "Component[%d] gain is missing (actually zero)",
                   args |-> <<i>>]]
    ELSE CheckStreams(cfg, i + 1)

\* The processor fields setup writes: self = [op, filt, status, statusValue].
\* The result adds the return value and the error message logged.
setStatus(self, st, v) ==
    [self EXCEPT !.status = st, !.statusValue = v]

setup(self, s, cfg, base, gen) ==
    LET s0 == [op |-> ResetOperator(self.op),
               filt |-> ResetFilter(self.filt),
               status |-> self.status,
               statusValue |-> self.statusValue,
               ret |-> FALSE,
               log |-> NoLog]
        chk == CheckStreams(cfg, FirstHorizontal)
        preFilter == GetStringOrEmpty(s, PreFilterKey)
        postFilter == GetStringOrEmpty(s, PostFilterKey)
        pre == FilterCreate(preFilter, gen)
        post == FilterCreate(postFilter, gen)
    IN
    IF ~base.ok THEN [s0 EXCEPT !.status = base.status]
    ELSE IF ~chk.ok
    THEN [setStatus(s0, chk.status, <<chk.value, 1>>) EXCEPT !.log = chk.log]
    ELSE IF UnitsDiffer(cfg)
    THEN [setStatus(s0, "ConfigurationError", <<1, 1>>) EXCEPT
            !.log = [fmt |-> "Both components do not have the same gain unit: %s != %s",
                     args |-> <<cfg[FirstHorizontal].gainUnit,
                                cfg[SecondHorizontal].gainUnit>>]]
    ELSE IF preFilter # "" /\ pre.filter = NoFilter
    THEN [setStatus(s0, "ConfigurationError", <<2, 1>>) EXCEPT
            !.log = [fmt |-> "Failed to create pre-filter: %s: %s",
                     args |-> <<preFilter, pre.error>>]]
    ELSE
        LET s1 == [s0 EXCEPT !.op =
                      IF preFilter # ""
                      THEN [gen |-> gen, pre |-> pre.filter]
                      ELSE [gen |-> gen, pre |-> NoFilter]]
        IN
        IF postFilter # "" /\ post.filter = NoFilter
        THEN [setStatus(s1, "ConfigurationError", <<3, 1>>) EXCEPT
                !.log = [fmt |-> "Failed to create filter: %s: %s",
                         args |-> <<preFilter, post.error>>]]
        ELSE IF postFilter # ""
        THEN [s1 EXCEPT !.filt = post.filter, !.ret = TRUE]
        ELSE [s1 EXCEPT !.ret = TRUE]

\* The host application assigns the stream configuration of one horizontal
\* component (code, gain, gain unit) before it calls setup.
ConfigureStream ==
    /\ \E i \in FirstHorizontal..SecondHorizontal, sc \in StreamConfigs :
          /\ streamConfig[i] # sc
          /\ streamConfig' = [streamConfig EXCEPT ![i] = sc]
    /\ lastCall' = "configure"
    /\ settings' = << >>
    /\ baseOk' = FALSE
    /\ ret' = FALSE
    /\ logged' = NoLog
    /\ UNCHANGED <<op, filt, status, statusValue, setupOk, nSetup, forwarded>>
    /\ UNCHANGED ampVars
    /\ UNCHANGED combVars
    /\ UNCHANGED ttVars

\* One call of setup.
Setup ==
    /\ nSetup < MaxSetups
    /\ \E s \in SettingsSet,
          base \in BaseOutcomes(status) :
          LET r == setup([op |-> op, filt |-> filt, status |-> status,
                          statusValue |-> statusValue],
                         s, streamConfig, base, nSetup + 1)
          IN /\ op' = r.op
             /\ filt' = r.filt
             /\ status' = r.status
             /\ statusValue' = r.statusValue
             /\ ret' = r.ret
             /\ setupOk' = r.ret
             /\ logged' = r.log
             /\ streamConfig' = streamConfig
             /\ settings' = s
             /\ baseOk' = base.ok
    /\ nSetup' = nSetup + 1
    /\ lastCall' = "setup"
    /\ UNCHANGED forwarded
    /\ UNCHANGED ampVars
    /\ UNCHANGED combVars
    /\ UNCHANGED ttVars

----------------------------------------------------------------------------
(* PGAProcessor::feed *)

HasOperator(o) == o.gen # 0

\* AmplitudeProcessor::feed(rec) is outside the plugin: the model counts
\* the records handed to it (at most MaxFeeds) and leaves its return value
\* open.
Feed ==
    /\ forwarded < MaxFeeds
    /\ lastCall' = "feed"
    /\ settings' = << >>
    /\ baseOk' = FALSE
    /\ IF ~HasOperator(op)
       THEN /\ logged' = [fmt |-> "No operator set, has setup() been called?",
                          args |-> <<>>]
            /\ ret' = FALSE
            /\ forwarded' = forwarded
       ELSE /\ logged' = NoLog
            /\ forwarded' = forwarded + 1
            /\ ret' \in BOOLEAN
    /\ UNCHANGED <<op, filt, status, statusValue, streamConfig, setupOk,
                   nSetup>>
    /\ UNCHANGED ampVars
    /\ UNCHANGED combVars
    /\ UNCHANGED ttVars

----------------------------------------------------------------------------
(* Specification of the processor life cycle: setup and feed *)

\* Real numbers of the combiner are pairs of sign and square, which makes
\* the square root exact: the integer x is [sign(x), x * x].
Real(x) == [sign |-> IF x < 0 THEN -1 ELSE IF x = 0 THEN 0 ELSE 1, sq |-> x * x]

InitCombIdle ==
    /\ combIn = <<[i \in 0..(CombLen - 1) |-> 0], [i \in 0..(CombLen - 1) |-> 0]>>
    /\ combN = 0
    /\ combData = <<[i \in 0..(CombLen - 1) |-> Real(0)],
                    [i \in 0..(CombLen - 1) |-> Real(0)]>>
    /\ combCall = "none"
    /\ pubArg = 0
    /\ pubRet = FALSE

\* IDCInfra after construction.  Distances are in tenths of a degree and
\* celerities in m/s.
IDCDefault ==
    << [distance |-> 0, celerity |-> 330],
       [distance |-> 12, celerity |-> 295],
       [distance |-> 200, celerity |-> 303] >>

NoApp == [app |-> FALSE, hasTables |-> FALSE, tables |-> << >>,
          distances |-> << >>, celerities |-> << >>]
NoTravelTime == [phase |-> "", time |-> <<0, 1>>]

InitInfra ==
    /\ ttModel = "IDC_2010"
    /\ ttTable = "&IDCDefault"
    /\ ttTables = << >>
    /\ ttInitialized = FALSE
    /\ ttCall = "none"
    /\ ttArg = ""
    /\ ttRet = FALSE
    /\ ttDist = 0
    /\ ttCelerity = 0
    /\ ttResult = NoTravelTime

InitTttIdle ==
    /\ appConfig = NoApp
    /\ InitInfra

InitProc ==
    /\ op = NoOperator
    /\ filt = NoFilter
    /\ streamConfig = [i \in FirstHorizontal..SecondHorizontal |-> DefaultStream]
    /\ settings = << >>
    /\ baseOk = FALSE
    /\ setupOk = FALSE
    /\ nSetup = 0
    /\ forwarded = 0
    /\ logged = NoLog

InitOutputs ==
    /\ status = "WaitingForData"
    /\ statusValue = <<0, 1>>
    /\ ret = FALSE
    /\ lastCall = "none"
    /\ dtIndex = 0
    /\ amplitude = 0
    /\ period = 0
    /\ snr = <<0, 1>>

Init ==
    /\ InitProc
    /\ InitOutputs
    /\ data = [i \in 0..(DataLen - 1) |-> 0]
    /\ si1 = 0
    /\ si2 = DataLen
    /\ offset = 0
    /\ noiseAmplitude = 0
    /\ snrMin = 0
    /\ InitCombIdle
    /\ InitTttIdle

Next == ConfigureStream \/ Setup \/ Feed

Spec == Init /\ [][Next]_vars

----------------------------------------------------------------------------
(* PGAProcessor::computeAmplitude *)

Abs(x) == IF x < 0 THEN -x ELSE x

\* find_absmax(n, f, i1, i2, offset) of the processing library: the first
\* index in [i1, i2) at which |f[i] - offset| is maximal.
RECURSIVE AbsMaxLoop(_, _, _, _, _)
AbsMaxLoop(f, i, i2, off, imax) ==
    IF i >= i2 THEN imax
    ELSE IF Abs(f[i] - off) > Abs(f[imax] - off)
    THEN AbsMaxLoop(f, i + 1, i2, off, i)
    ELSE AbsMaxLoop(f, i + 1, i2, off, imax)

find_absmax(n, f, i1, i2, off) == AbsMaxLoop(f, i1, i2, off, i1)

AmplitudeValueNoOffset(d, idx, off) == Abs(d[idx])
AmplitudeValue(d, idx, off) == Abs(d[idx] - off)

ComputeSnrInverted(value, noise) ==
    IF noise = 0 THEN <<-1, 1>> ELSE <<noise, value>>
ComputeSnr(value, noise) ==
    IF noise = 0 THEN <<-1, 1>> ELSE <<value, noise>>

\* *snr < _config.snrMin, for a quotient with a non-negative denominator
LowSnrGateInclusive(q, min) == q[1] <= min * q[2]
LowSnrGate(q, min) == q[1] < min * q[2]

computeAmplitude(self, d, s1, s2, off, noise, min) ==
    LET idx == find_absmax(DataLen, d, s1, s2, off)
        value == AmplitudeValue(d, idx, off)
        q == ComputeSnr(value, noise)
        out == [index |-> idx, value |-> value, period |-> -1, snr |-> q,
                status |-> self.status, statusValue |-> self.statusValue,
                ret |-> TRUE]
    IN IF LowSnrGate(q, min)
       THEN [setStatus(out, "LowSNR", q) EXCEPT !.ret = FALSE]
       ELSE out

ComputeAmplitude ==
    /\ lastCall = "none"
    /\ LET r == computeAmplitude([status |-> status, statusValue |-> statusValue],
                                 data, si1, si2, offset, noiseAmplitude, snrMin)
       IN /\ dtIndex' = r.index
          /\ amplitude' = r.value
          /\ period' = r.period
          /\ snr' = r.snr
          /\ status' = r.status
          /\ statusValue' = r.statusValue
          /\ ret' = r.ret
    /\ lastCall' = "computeAmplitude"
    /\ UNCHANGED <<data, si1, si2, offset, noiseAmplitude, snrMin>>
    /\ UNCHANGED procVars
    /\ UNCHANGED combVars
    /\ UNCHANGED ttVars

\* The amplitude computation on every buffer, non-empty signal window,
\* offset, noise amplitude and minimum SNR within the bounds.
InitAmp ==
    /\ InitProc
    /\ InitOutputs
    /\ data \in [0..(DataLen - 1) -> (-MaxSample)..MaxSample]
    /\ si1 \in 0..(DataLen - 1)
    /\ si2 \in (si1 + 1)..DataLen
    /\ offset \in (-MaxOffset)..MaxOffset
    /\ noiseAmplitude \in 0..MaxNoise
    /\ snrMin \in (-MaxSnrMin)..MaxSnrMin
    /\ InitCombIdle
    /\ InitTttIdle

NextAmp == ComputeAmplitude

SpecAmp == InitAmp /\ [][NextAmp]_vars

----------------------------------------------------------------------------
(* ComponentCombiner<T, 2> *)

\* sqrt(x) of a non-negative real given by its square n = x * x
SqrtOf(n) == [sign |-> IF n = 0 THEN 0 ELSE 1, sq |-> n]

\* v * v
Square(v) == v.sq

L2NormNoSqrt(x, y) ==
    SqrtOf((Square(x) + Square(y)) * (Square(x) + Square(y)))
L2Norm(x, y) == SqrtOf(Square(x) + Square(y))

\* operator()(rec, data, n, stime, sfreq): data[0][i] is overwritten for
\* i < n, data[1] is only read.  The traces are data[1] and data[2] here.
CombinerApply(d, n) ==
    [d EXCEPT ![1] = [i \in DOMAIN d[1] |->
                         IF i < n THEN L2Norm(d[1][i], d[2][i]) ELSE d[1][i]]]

publish(c) == c = 0

CombinerOperator ==
    /\ combCall = "none"
    /\ combData' = CombinerApply(combData, combN)
    /\ combCall' = "operator"
    /\ UNCHANGED <<combIn, combN, pubArg, pubRet>>
    /\ UNCHANGED <<status, statusValue, ret, lastCall>>
    /\ UNCHANGED procVars
    /\ UNCHANGED ampVars
    /\ UNCHANGED ttVars

CombinerPublish ==
    /\ \E c \in (-1)..CombLen :
          /\ pubArg' = c
          /\ pubRet' = publish(c)
    /\ combCall' = "publish"
    /\ UNCHANGED <<combIn, combN, combData>>
    /\ UNCHANGED <<status, statusValue, ret, lastCall>>
    /\ UNCHANGED procVars
    /\ UNCHANGED ampVars
    /\ UNCHANGED ttVars

\* The combiner on every pair of traces of CombLen samples and every n.
InitComb ==
    /\ InitProc
    /\ InitOutputs
    /\ data = [i \in 0..(DataLen - 1) |-> 0]
    /\ si1 = 0
    /\ si2 = DataLen
    /\ offset = 0
    /\ noiseAmplitude = 0
    /\ snrMin = 0
    /\ combIn \in [1..2 -> [0..(CombLen - 1) -> (-MaxComp)..MaxComp]]
    /\ combN \in 0..CombLen
    /\ combData = [c \in 1..2 |-> [i \in 0..(CombLen - 1) |-> Real(combIn[c][i])]]
    /\ combCall = "none"
    /\ pubArg = 0
    /\ pubRet = FALSE
    /\ InitTttIdle

NextComb == CombinerOperator \/ CombinerPublish

SpecComb == InitComb /\ [][NextComb]_vars

----------------------------------------------------------------------------
(* IDCInfra: travel-time table for infrasound *)

PHASE_NAME == "Is"

\* Math::Geo::deg2km, in metres per degree
MetresPerDegree == 111195

\* is_sorted(dists.begin(), dists.end())
IsSorted(ds) == \A i \in 1..(Len(ds) - 1) : ds[i] <= ds[i + 1]

Nodes(ds, cs) ==
    [i \in 1..Len(ds) |-> [distance |-> ds[i], celerity |-> cs[i]]]

\* The loop of loadConfig over the configured table names: a table is
\* skipped when it is the default, when one of its two keys is missing,
\* when the lists are empty or of different length, or when the distances
\* are not sorted; otherwise its nodes are appended to _tables[table].
RECURSIVE LoadTables(_, _, _)
LoadTables(cfg, names, acc) ==
    IF names = << >> THEN acc
    ELSE
        LET table == Head(names)
            rest == Tail(names)
        IN
        IF table = "IDC_2010" THEN LoadTables(cfg, rest, acc)
        ELSE IF table \notin DOMAIN cfg.distances
                \/ table \notin DOMAIN cfg.celerities
        THEN LoadTables(cfg, rest, acc)
        ELSE
            LET dists == cfg.distances[table]
                celerities == cfg.celerities[table]
            IN
            IF Len(dists) < 1 \/ Len(dists) # Len(celerities)
            THEN LoadTables(cfg, rest, acc)
            ELSE IF ~IsSorted(dists)
            THEN LoadTables(cfg, rest, acc)
            ELSE IF table \in DOMAIN acc
            THEN LoadTables(cfg, rest,
                    [acc EXCEPT ![table] = @ \o Nodes(dists, celerities)])
            ELSE LoadTables(cfg, rest,
                    acc @@ (table :> Nodes(dists, celerities)))

\* loadConfig(): self = [tables, initialized]
loadConfig(self, cfg) ==
    IF self.initialized THEN self
    ELSE IF ~cfg.app THEN [self EXCEPT !.initialized = TRUE]
    ELSE IF ~cfg.hasTables THEN [self EXCEPT !.initialized = TRUE]
    ELSE [tables |-> LoadTables(cfg, cfg.tables, self.tables),
          initialized |-> TRUE]

\* setModel(model): self = [model, table, tables, initialized]
setModel(self, cfg, model) ==
    IF model = "IDC_2010"
    THEN [self EXCEPT !.model = model, !.ret = TRUE]
    ELSE
        LET l == loadConfig([tables |-> self.tables,
                             initialized |-> self.initialized], cfg)
            s1 == [self EXCEPT !.tables = l.tables,
                               !.initialized = l.initialized]
        IN IF model \notin DOMAIN l.tables
           THEN [s1 EXCEPT !.ret = FALSE]
           ELSE [s1 EXCEPT !.model = model, !.table = model, !.ret = TRUE]

\* *_table
TableOf(ptr, tables) == IF ptr = "&IDCDefault" THEN IDCDefault ELSE tables[ptr]

\* std::lower_bound(first, last, distDeg) with Node::operator<(double): the
\* binary search of the standard library, on positions first..first+len-1.
RECURSIVE LowerBound(_, _, _, _)
LowerBound(T, distDeg, first, len) ==
    IF len <= 0 THEN first
    ELSE LET half == len \div 2
             mid == first + half
         IN IF T[mid].distance < distDeg
            THEN LowerBound(T, distDeg, mid + 1, len - half - 1)
            ELSE LowerBound(T, distDeg, first, half)

findCelerity(T, distDeg) ==
    LET it == LowerBound(T, distDeg, 1, Len(T))
    IN IF it = Len(T) + 1 THEN T[Len(T)].celerity ELSE T[it].celerity

\* get(distDeg, alt2): t = distKm / c, with the distance in tenths of a
\* degree and the celerity in m/s
get(T, distDeg) ==
    LET c == findCelerity(T, distDeg)
    IN [phase |-> PHASE_NAME, time |-> <<distDeg * MetresPerDegree, 10 * c>>,
        celerity |-> c]

ModelNames == {"IDC_2010", "CUSTOM", "OTHER", "UNKNOWN"}
Phases == {"nullptr", "Is", "P"}
Distances == (0..(MaxDist + 1)) \cup {12, 200, 201}

SetModel ==
    /\ \E model \in ModelNames :
          LET r == setModel([model |-> ttModel, table |-> ttTable,
                             tables |-> ttTables,
                             initialized |-> ttInitialized, ret |-> FALSE],
                            appConfig, model)
          IN /\ ttModel' = r.model
             /\ ttTable' = r.table
             /\ ttTables' = r.tables
             /\ ttInitialized' = r.initialized
             /\ ttRet' = r.ret
             /\ ttArg' = model
    /\ ttCall' = "setModel"
    /\ UNCHANGED <<appConfig, ttDist, ttCelerity, ttResult>>
    /\ UNCHANGED <<status, statusValue, ret, lastCall>>
    /\ UNCHANGED procVars
    /\ UNCHANGED ampVars
    /\ UNCHANGED combVars

\* compute(lat1, lon1, dep1, lat2, lon2, alt2, ellc): a list with the one
\* travel time of get(distDeg, alt2); distDeg is what delazi returns.
ComputeList ==
    /\ \E distDeg \in Distances :
          LET r == get(TableOf(ttTable, ttTables), distDeg)
          IN /\ ttDist' = distDeg
             /\ ttCelerity' = r.celerity
             /\ ttResult' = [phase |-> r.phase, time |-> r.time]
    /\ ttCall' = "compute"
    /\ UNCHANGED <<appConfig, ttModel, ttTable, ttTables, ttInitialized,
                   ttArg, ttRet>>
    /\ UNCHANGED <<status, statusValue, ret, lastCall>>
    /\ UNCHANGED procVars
    /\ UNCHANGED ampVars
    /\ UNCHANGED combVars

\* compute(phase, ...): NoPhaseError unless the phase is "Is".
\* computeFirst(...) is compute(PHASE_NAME, ...).
ComputePhase ==
    /\ \E phase \in Phases, distDeg \in Distances :
          IF phase = "nullptr" \/ phase # PHASE_NAME
          THEN /\ ttCall' = "NoPhaseError"
               /\ UNCHANGED <<ttDist, ttCelerity, ttResult>>
          ELSE LET r == get(TableOf(ttTable, ttTables), distDeg)
               IN /\ ttCall' = "compute"
                  /\ ttDist' = distDeg
                  /\ ttCelerity' = r.celerity
                  /\ ttResult' = [phase |-> r.phase, time |-> r.time]
    /\ UNCHANGED <<appConfig, ttModel, ttTable, ttTables, ttInitialized,
                   ttArg, ttRet>>
    /\ UNCHANGED <<status, statusValue, ret, lastCall>>
    /\ UNCHANGED procVars
    /\ UNCHANGED ampVars
    /\ UNCHANGED combVars

\* Configurations of the application: no application instance, no
\* ttt.idcinfra.tables key, or a list of table names with the distance and
\* celerity lists of CUSTOM and OTHER.
SortedLists ==
    { ds \in UNION { [1..n -> 0..MaxDist] : n \in 1..MaxTableLen } : IsSorted(ds) }
DistanceLists == SortedLists \cup {<< >>, <<MaxDist, 0>>}
CelerityList(n) == [i \in 1..n |-> 310 + 10 * i]
TableLists ==
    { <<"IDC_2010">>, <<"IDC_2010", "CUSTOM">>, <<"CUSTOM", "OTHER">>,
      <<"CUSTOM", "CUSTOM">> }

\* The celerities of CUSTOM: as many as distances, one more, or no key
CustomCelerities(ds, k) ==
    IF k = 0 THEN ("CUSTOM" :> CelerityList(Len(ds)))
    ELSE IF k = 1 THEN ("CUSTOM" :> CelerityList(Len(ds) + 1))
    ELSE << >>

AppConfigs ==
    {NoApp} \cup
    {[app |-> TRUE, hasTables |-> FALSE, tables |-> << >>,
      distances |-> << >>, celerities |-> << >>]} \cup
    { [app |-> TRUE, hasTables |-> TRUE, tables |-> names,
       distances |-> ("CUSTOM" :> ds) @@ ("OTHER" :> <<2>>),
       celerities |-> CustomCelerities(ds, k) @@ ("OTHER" :> <<340>>)] :
         names \in TableLists, ds \in DistanceLists, k \in 0..2 }

InitTtt ==
    /\ InitProc
    /\ InitOutputs
    /\ data = [i \in 0..(DataLen - 1) |-> 0]
    /\ si1 = 0
    /\ si2 = DataLen
    /\ offset = 0
    /\ noiseAmplitude = 0
    /\ snrMin = 0
    /\ InitCombIdle
    /\ appConfig \in AppConfigs
    /\ InitInfra

NextTtt == SetModel \/ ComputeList \/ ComputePhase

SpecTtt == InitTtt /\ [][NextTtt]_vars

----------------------------------------------------------------------------
(* Properties *)

Horizontals == FirstHorizontal..SecondHorizontal

\* The filter strings setup reads from the settings of the most recent call
PreOf(st) == IF PreFilterKey \in DOMAIN st THEN st[PreFilterKey] ELSE ""
PostOf(st) == IF PostFilterKey \in DOMAIN st THEN st[PostFilterKey] ELSE ""

StreamsValid ==
    \A i \in Horizontals : streamConfig[i].code # "" /\ streamConfig[i].gain # 0
UnitsEqual ==
    streamConfig[FirstHorizontal].gainUnit = streamConfig[SecondHorizontal].gainUnit

\* C1: feed on a processor on which setup was never called returns false
\* with status OperatorNotConfigured, forwards nothing to the base class and
\* leaves operator and filter alone.
C1_Original ==
    (nSetup = 0 /\ lastCall = "feed") =>
        /\ ret = FALSE
        /\ status = "OperatorNotConfigured"
        /\ forwarded = 0
        /\ op = NoOperator
        /\ filt = NoFilter

\* C2: whenever the most recent setup returned false the processor has no
\* operator and no post-filter, and a feed that follows is rejected.
C2_FailedSetupLeavesNoOperator ==
    (nSetup > 0 /\ ~setupOk) =>
        /\ op = NoOperator
        /\ filt = NoFilter
        /\ lastCall = "feed" =>
              (ret = FALSE /\ logged.fmt = "No operator set, has setup() been called?")

\* C3 (as stated): setup with different gain units on the two horizontal
\* components returns false with status ConfigurationError whatever the
\* codes, gains and filter strings are, and sets no operator or filter.
C3_Original ==
    (lastCall = "setup" /\ baseOk /\ ~UnitsEqual) =>
        /\ ~setupOk
        /\ status = "ConfigurationError"
        /\ op = NoOperator
        /\ filt = NoFilter

\* C3 (amended): setup with different gain units on the two horizontal
\* components returns false and sets no operator or filter; the status is
\* ConfigurationError (value 1) when the base-class setup succeeded and
\* both components have a non-empty code and a non-zero gain.
C3_UnitMismatch ==
    (lastCall = "setup" /\ ~UnitsEqual) =>
        /\ ~setupOk
        /\ op = NoOperator
        /\ filt = NoFilter
        /\ (baseOk /\ StreamsValid) =>
              (status = "ConfigurationError" /\ statusValue = <<1, 1>>)

C3_Witness ==
    /\ lastCall = "setup"
    /\ nSetup > 1
    /\ baseOk
    /\ StreamsValid
    /\ ~UnitsEqual
    /\ PreOf(settings) # ""
    /\ PostOf(settings) # ""
    /\ status = "ConfigurationError"
    /\ ~setupOk

\* C4 (as stated): setup with a zero gain on either horizontal component
\* returns false with status MissingGain whatever the other component's
\* code, gain and unit are.
C4_Original ==
    (lastCall = "setup" /\ baseOk
        /\ \E i \in Horizontals : streamConfig[i].gain = 0) =>
        (~setupOk /\ status = "MissingGain")

\* C4 (amended): setup with a zero gain on a horizontal component returns
\* false and sets no operator or filter; the status is MissingGain with the
\* component's index when the base-class setup succeeded, the component's
\* code is non-empty and every earlier component has a non-empty code and a
\* non-zero gain.
C4_ZeroGain ==
    \A i \in Horizontals :
        (lastCall = "setup" /\ streamConfig[i].gain = 0) =>
            /\ ~setupOk
            /\ op = NoOperator
            /\ filt = NoFilter
            /\ (/\ baseOk
                /\ streamConfig[i].code # ""
                /\ \A j \in Horizontals : j < i =>
                      (streamConfig[j].code # "" /\ streamConfig[j].gain # 0))
               => (status = "MissingGain" /\ statusValue = <<i, 1>>)

C4_Witness ==
    /\ lastCall = "setup"
    /\ baseOk
    /\ streamConfig[FirstHorizontal].code # ""
    /\ streamConfig[FirstHorizontal].gain # 0
    /\ streamConfig[SecondHorizontal].code # ""
    /\ streamConfig[SecondHorizontal].gain = 0
    /\ status = "MissingGain"
    /\ statusValue = <<SecondHorizontal, 1>>
    /\ ~setupOk

\* C5 (as stated): setup with an empty code on either horizontal component
\* returns false with the empty-code status (Error, which is neither
\* MissingGain nor ConfigurationError) and sets no operator or filter.
C5_Original ==
    (lastCall = "setup" /\ baseOk
        /\ \E i \in Horizontals : streamConfig[i].code = "") =>
        /\ ~setupOk
        /\ status = "Error"
        /\ op = NoOperator
        /\ filt = NoFilter

\* C5 (amended): setup with an empty code on a horizontal component returns
\* false and sets no operator or filter; the status is Error with the
\* component's index when the base-class setup succeeded and every earlier
\* component has a non-empty code and a non-zero gain.
C5_EmptyCode ==
    \A i \in Horizontals :
        (lastCall = "setup" /\ streamConfig[i].code = "") =>
            /\ ~setupOk
            /\ op = NoOperator
            /\ filt = NoFilter
            /\ (/\ baseOk
                /\ \A j \in Horizontals : j < i =>
                      (streamConfig[j].code # "" /\ streamConfig[j].gain # 0))
               => (status = "Error" /\ statusValue = <<i, 1>>)

C5_Witness ==
    /\ lastCall = "setup"
    /\ baseOk
    /\ streamConfig[FirstHorizontal].code # ""
    /\ streamConfig[FirstHorizontal].gain # 0
    /\ streamConfig[SecondHorizontal].code = ""
    /\ status = "Error"
    /\ statusValue = <<SecondHorizontal, 1>>
    /\ ~setupOk

\* Deviation of sample i of the buffer from the offset
Dev(i) == IF data[i] >= offset THEN data[i] - offset ELSE offset - data[i]

Window == si1..(si2 - 1)

\* C6: computeAmplitude sets the index to the first index of the signal
\* window [si1, si2) at which |data[i] - offset| is maximal, and the
\* amplitude value to |data[index] - offset|; the value is 0 when every
\* sample of the window equals the offset.
C6_PeakIndexAndValue ==
    lastCall = "computeAmplitude" =>
        /\ dtIndex \in Window
        /\ \A i \in Window : Dev(i) <= Dev(dtIndex)
        /\ \A i \in Window : i < dtIndex => Dev(i) < Dev(dtIndex)
        /\ amplitude = Dev(dtIndex)
        /\ (\A i \in Window : data[i] = offset) => amplitude = 0

C6_Witness ==
    /\ lastCall = "computeAmplitude"
    /\ offset # 0
    /\ dtIndex > si1
    /\ amplitude > 0
    /\ \E i \in Window : i > dtIndex /\ Dev(i) = Dev(dtIndex)

\* C7: computeAmplitude reports period -1; it reports snr -1 when the noise
\* amplitude is zero and snr = value / noiseAmplitude otherwise.
C7_PeriodAndSnr ==
    lastCall = "computeAmplitude" =>
        /\ period = -1
        /\ noiseAmplitude = 0 => snr = <<-1, 1>>
        /\ noiseAmplitude # 0 =>
              (snr[2] > 0 /\ snr[1] * noiseAmplitude = amplitude * snr[2])

C7_Witness ==
    /\ lastCall = "computeAmplitude"
    /\ noiseAmplitude > 1
    /\ amplitude > 0
    /\ amplitude # noiseAmplitude
    /\ period = -1
    /\ snr = <<amplitude, noiseAmplitude>>

\* C8: with a non-zero noise amplitude computeAmplitude fails exactly when
\* value / noiseAmplitude is below snrMin; with a zero noise amplitude it
\* does not fail unless snrMin exceeds the sentinel -1.  A failure sets the
\* status LowSNR with the snr as its value, a success leaves the status.
C8_LowSnrGate ==
    lastCall = "computeAmplitude" =>
        /\ noiseAmplitude # 0 =>
              (ret = FALSE <=> amplitude < snrMin * noiseAmplitude)
        /\ (noiseAmplitude = 0 /\ ~(snrMin > -1)) => ret = TRUE
        /\ ret = FALSE => (status = "LowSNR" /\ statusValue = snr)
        /\ ret = TRUE => (status = "WaitingForData" /\ statusValue = <<0, 1>>)

C8_Witness ==
    /\ lastCall = "computeAmplitude"
    /\ noiseAmplitude > 0
    /\ snrMin > 0
    /\ amplitude = snrMin * noiseAmplitude
    /\ ret = TRUE

\* C9: when the registry cannot construct the pre-filter or the post-filter
\* string, setup returns false with status ConfigurationError and the error
\* message names the string that failed together with the registry's error.
C9_FilterErrorReport ==
    (lastCall = "setup" /\ baseOk /\ StreamsValid /\ UnitsEqual) =>
        LET pre == PreOf(settings)
            post == PostOf(settings)
            preBad == pre # "" /\ pre \notin ValidSpecs
            postBad == post # "" /\ post \notin ValidSpecs
        IN /\ preBad =>
                /\ ~setupOk
                /\ status = "ConfigurationError"
                /\ Len(logged.args) = 2
                /\ logged.args[1] = pre
                /\ logged.args[2] = RegistryError(pre)
           /\ (~preBad /\ postBad) =>
                /\ ~setupOk
                /\ status = "ConfigurationError"
                /\ Len(logged.args) = 2
                /\ logged.args[1] = post
                /\ logged.args[2] = RegistryError(post)

\* C10: after a successful setup the operator is the one constructed by
\* that call, it wraps a pre-filter exactly when that call's pre-filter
\* string is non-empty, a post-filter is set exactly when that call's
\* post-filter string is non-empty, and every filter is one constructed by
\* that call from that call's string.
C10_LatestSetupDecides ==
    (lastCall = "setup" /\ setupOk) =>
        /\ op.gen = nSetup
        /\ op.pre # NoFilter <=> PreOf(settings) # ""
        /\ op.pre # NoFilter =>
              op.pre = [gen |-> nSetup, spec |-> PreOf(settings)]
        /\ filt # NoFilter <=> PostOf(settings) # ""
        /\ filt # NoFilter =>
              filt = [gen |-> nSetup, spec |-> PostOf(settings)]

C10_Witness ==
    /\ lastCall = "setup"
    /\ setupOk
    /\ nSetup > 1
    /\ op.gen = nSetup
    /\ op.pre = NoFilter
    /\ filt = NoFilter

\* C11 (as stated): with both horizontal channels valid and the base-class
\* setup succeeding, setup succeeds whenever the pre-filter key, the
\* post-filter key or both are absent from the settings.
C11_Original ==
    (/\ lastCall = "setup"
     /\ baseOk
     /\ StreamsValid
     /\ UnitsEqual
     /\ (PreFilterKey \notin DOMAIN settings
            \/ PostFilterKey \notin DOMAIN settings))
    => setupOk

\* C11 (amended): with both horizontal channels valid and the base-class
\* setup succeeding, a setup call in which each filter key is absent, empty
\* or constructible, and at least one is absent, succeeds and leaves the
\* status as it was; an absent pre-filter key gives an operator without
\* pre-filter and an absent post-filter key gives no post-filter.
C11_AbsentKeys ==
    [][(/\ nSetup' = nSetup + 1
        /\ baseOk'
        /\ \A i \in Horizontals :
              streamConfig[i].code # "" /\ streamConfig[i].gain # 0
        /\ streamConfig[FirstHorizontal].gainUnit
              = streamConfig[SecondHorizontal].gainUnit
        /\ (PreFilterKey \notin DOMAIN settings'
               \/ PostFilterKey \notin DOMAIN settings')
        /\ \A k \in DOMAIN settings' : settings'[k] \in ValidSpecs \cup {""})
       =>
       (/\ setupOk'
        /\ ret'
        /\ status' = status
        /\ statusValue' = statusValue
        /\ logged' = NoLog
        /\ op'.gen = nSetup'
        /\ PreFilterKey \notin DOMAIN settings' => op'.pre = NoFilter
        /\ PostFilterKey \notin DOMAIN settings' => filt' = NoFilter)]_vars

C11_Witness ==
    /\ lastCall = "setup"
    /\ setupOk
    /\ DOMAIN settings = {PostFilterKey}
    /\ settings[PostFilterKey] \in ValidSpecs
    /\ op.gen = nSetup
    /\ op.pre = NoFilter
    /\ filt.spec = settings[PostFilterKey]

\* |x| of an integer x, as sign and square
Magnitude(x) == [sign |-> IF x = 0 THEN 0 ELSE 1, sq |-> x * x]

\* C12: the two-component combiner writes sqrt(a[i]^2 + b[i]^2) into the
\* first buffer for every i in 0..n-1 (|b[i]| when a[i] = 0 and |a[i]| when
\* b[i] = 0), leaves the second buffer unchanged, and publish(c) is true
\* only for c = 0.
C12_Combiner ==
    /\ combCall = "operator" =>
          /\ \A i \in 0..(combN - 1) :
                /\ combData[1][i].sq
                      = combIn[1][i] * combIn[1][i] + combIn[2][i] * combIn[2][i]
                /\ combData[1][i].sign = IF combData[1][i].sq = 0 THEN 0 ELSE 1
                /\ combIn[1][i] = 0 => combData[1][i] = Magnitude(combIn[2][i])
                /\ combIn[2][i] = 0 => combData[1][i] = Magnitude(combIn[1][i])
          /\ \A i \in 0..(CombLen - 1) :
                combData[2][i] = Real(combIn[2][i])
    /\ combCall = "publish" => (pubRet <=> pubArg = 0)

C12_Witness ==
    /\ combCall = "operator"
    /\ combN = CombLen
    /\ combIn[1][0] = 0
    /\ combIn[2][0] = -1
    /\ combData[1][0] = Magnitude(1)
    /\ combIn[1][1] # 0
    /\ combIn[2][1] # 0
    /\ combData[1][1].sq = 2

\* The table compute reads through _table
UsedTable == TableOf(ttTable, ttTables)

\* C13: for a table sorted by distance and an input distance d, the
\* celerity used for the travel time is that of the first table pair whose
\* distance is not greater than d, and that of the first pair when d is
\* less than the first pair's distance.
C13_CelerityLookup ==
    (/\ ttCall = "compute"
     /\ \A i \in 1..(Len(UsedTable) - 1) :
           UsedTable[i].distance <= UsedTable[i + 1].distance)
    =>
    IF ttDist < UsedTable[1].distance
    THEN ttCelerity = UsedTable[1].celerity
    ELSE \E i \in 1..Len(UsedTable) :
            /\ UsedTable[i].distance <= ttDist
            /\ \A j \in 1..(i - 1) : UsedTable[j].distance > ttDist
            /\ ttCelerity = UsedTable[i].celerity

\* C14: after every setModel call the table compute uses is the table of
\* the model named by model(): the hard-coded default table for IDC_2010,
\* the configured table of that name otherwise; a setModel call that
\* returns false changes neither the model name nor the table.
C14_TableFollowsModel ==
    [][ttCall' = "setModel" =>
          /\ ttModel' = "IDC_2010" => ttTable' = "&IDCDefault"
          /\ ttModel' # "IDC_2010" =>
                (ttModel' \in DOMAIN ttTables' /\ ttTable' = ttModel')
          /\ ttRet' => ttModel' = ttArg'
          /\ ~ttRet' => (ttModel' = ttModel /\ ttTable' = ttTable)]_vars

====
